---------------------------- MODULE Spec2Model ----------------------------
(***************************************************************************)
(* A model of the treeviz front end: the shared day-of-year signal, the   *)
(* timeline slider, the application root, the FoliageMap element with its *)
(* asynchronous metadata / device / atlas-image callbacks, and the atlas  *)
(* lookup arithmetic of the phenology shaders.                             *)
(*                                                                         *)
(* JavaScript strings are sequences of one-character strings.  Shader      *)
(* floats are exact rationals <<numerator, denominator>>.                  *)
(***************************************************************************)
EXTENDS Integers, Sequences, FiniteSets, TLC

VARIABLES
    dayOfYearSignal,   \* store.ts: signal(280)
    yearSignal,        \* store.ts: signal(2024)
    dateDisplay,       \* text of the slider's .date-display after its last render
    sliderDirty,       \* TimelineSlider (SignalWatcher) has a re-render pending
    appRootDirty,      \* AppRoot (SignalWatcher) has a re-render pending
    legacyDayOfYear,   \* dayOfYear property of the property-based TimelineSlider
    lastInput,         \* the input event most recently handled by a slider
    emitted,           \* events dispatched on the slider element by that call
    phase,             \* position of FoliageMap.firstUpdated
    request,           \* state of the promise chain fetch('./api/metadata') / res.json()
    meta,              \* loadMetadata's parsed response body, once there is one
    atlasMapping,      \* FoliageMap.atlasMapping
    fetchLog,          \* URLs requested through fetch, in order
    map,               \* FoliageMap.map is non-null
    deck,              \* FoliageMap.deck is non-null
    imageState,        \* the atlas Image: "none", "loading", "loaded", "error"
    imageRequests,     \* number of times image.src was assigned
    atlasTexture,      \* FoliageMap.atlasTexture: NoTexture or a texture id
    textureCount,      \* number of device.createTexture calls
    showDebug,         \* FoliageMap.showDebug
    dayOfYear,         \* FoliageMap.dayOfYear
    changedProps,      \* Lit: properties changed since the last update
    overlayLayers,     \* layers last passed to deck.setProps
    attr,              \* latest instanceSpecies attribute value computed by deck
    frag,              \* one fragment of a phenology shader: inputs and outputs
    models,            \* getModels() of the layer carrying PhenologyExtension
    props              \* params.props of the last PhenologyExtension.updateState call

sliderVars == <<dayOfYearSignal, yearSignal, dateDisplay, sliderDirty, appRootDirty>>
legacyVars == <<legacyDayOfYear, lastInput, emitted>>
loadVars   == <<phase, request, meta, atlasMapping, fetchLog, map, deck>>
imageVars  == <<imageState, imageRequests, atlasTexture, textureCount>>
propVars   == <<showDebug, dayOfYear, changedProps>>
mapVars    == <<loadVars, imageVars, propVars, overlayLayers, attr>>
gpuVars    == <<frag, models, props>>
vars       == <<sliderVars, legacyVars, mapVars, gpuVars>>

---------------------------------------------------------------------------
(* Program constants *)

RangeMin == 1
RangeMax == 365
DefaultDay == 280
SignalDefaultDay == 280
DefaultYear == 2024
LegacyDefaultDay == 1
DaysPerYear == 365

(* Bounds of the model *)

MaxInput == 6         \* handler inputs are decimal strings of -MaxInput..MaxInput
MaxRowValue == 2      \* atlas_mapping values are drawn from 0..MaxRowValue
MaxAdjust == 368      \* per-instance day offsets are -MaxAdjust..MaxAdjust
MaxModels == 2        \* models a layer may own
MaxAtlasHeight == 14  \* atlas heights of the row lookup are 1..MaxAtlasHeight

---------------------------------------------------------------------------
(* JavaScript number <-> string conversions *)

DigitChars == <<"0", "1", "2", "3", "4", "5", "6", "7", "8", "9">>

IsDigit(c) == \E i \in 1..Len(DigitChars) : DigitChars[i] = c

DigitValue(c) == (CHOOSE i \in 1..Len(DigitChars) : DigitChars[i] = c) - 1

RECURSIVE NatToString(_)
NatToString(n) ==
    IF n < 10 THEN <<DigitChars[n + 1]>>
    ELSE NatToString(n \div 10) \o <<DigitChars[(n % 10) + 1]>>

\* Number::toString of an integer-valued number
NumberToString(n) == IF n < 0 THEN <<"-">> \o NatToString(-n) ELSE NatToString(n)

RECURSIVE TrimStart(_)
TrimStart(s) ==
    IF s # <<>> /\ Head(s) = " " THEN TrimStart(Tail(s)) ELSE s

RECURSIVE DigitPrefix(_)
DigitPrefix(s) ==
    IF s # <<>> /\ IsDigit(Head(s)) THEN <<Head(s)>> \o DigitPrefix(Tail(s))
    ELSE <<>>

RECURSIVE DigitsValue(_, _)
DigitsValue(ds, radix) ==
    IF ds = <<>> THEN 0
    ELSE DigitsValue(SubSeq(ds, 1, Len(ds) - 1), radix) * radix
         + DigitValue(ds[Len(ds)])

\* the sign and the rest of a trimmed numeric string
SignOf(s) == IF s # <<>> /\ Head(s) = "-" THEN -1 ELSE 1

Unsigned(s) == IF s # <<>> /\ Head(s) \in {"-", "+"} THEN Tail(s) ELSE s

\* parseInt yields a number (not NaN) exactly when digits follow the sign
HasNumericPrefix(s) == DigitPrefix(Unsigned(TrimStart(s))) # <<>>

\* parseInt that drops the sign
parseIntNoSign(s, radix) ==
    DigitsValue(DigitPrefix(Unsigned(TrimStart(s))), radix)

\* parseInt(string, 10): leading white space, a sign, the longest digit prefix
parseInt(s, radix) ==
    SignOf(TrimStart(s)) * DigitsValue(DigitPrefix(Unsigned(TrimStart(s))), radix)

---------------------------------------------------------------------------
(* JavaScript Date: local calendar arithmetic *)

MonthNames == <<"January", "February", "March", "April", "May", "June", "July",
                "August", "September", "October", "November", "December">>

IsLeapYear(y) == (y % 4 = 0 /\ y % 100 # 0) \/ y % 400 = 0

\* days of month m (0 = January) of year y, taking every year as a common year
DaysInMonthNoLeap(y, m) ==
    IF m = 1 THEN 28
    ELSE IF m \in {3, 5, 8, 10} THEN 30 ELSE 31

\* days of month m (0 = January) of year y
DaysInMonth(y, m) ==
    IF m = 1 THEN (IF IsLeapYear(y) THEN 29 ELSE 28)
    ELSE IF m \in {3, 5, 8, 10} THEN 30 ELSE 31

\* MakeDay: a day number outside the month carries into the months around it
RECURSIVE MakeDate(_, _, _)
MakeDate(y, m, d) ==
    IF d < 1
    THEN IF m = 0 THEN MakeDate(y - 1, 11, d + DaysInMonth(y - 1, 11))
                  ELSE MakeDate(y, m - 1, d + DaysInMonth(y, m - 1))
    ELSE IF d > DaysInMonth(y, m)
    THEN IF m = 11 THEN MakeDate(y + 1, 0, d - DaysInMonth(y, m))
                   ELSE MakeDate(y, m + 1, d - DaysInMonth(y, m))
    ELSE [year |-> y, month |-> m, day |-> d]

\* toLocaleDateString(undefined, {month: 'long', day: 'numeric'}), English names
ToLocaleDateString(date) == [month |-> MonthNames[date.month + 1], day |-> date.day]

---------------------------------------------------------------------------
(* store.ts and the SignalWatcher components *)

\* TimelineSlider.formattedDate: new Date(year, 0), setDate(dayOfYear)
formattedDate == ToLocaleDateString(MakeDate(yearSignal, 0, dayOfYearSignal))

\* signal.set(v): watchers are notified only when the value changes
SignalSet(v) ==
    /\ dayOfYearSignal' = v
    /\ sliderDirty' = (sliderDirty \/ v # dayOfYearSignal)
    /\ appRootDirty' = (appRootDirty \/ v # dayOfYearSignal)
    /\ UNCHANGED <<yearSignal, dateDisplay>>

\* handleInput parsing with radix 16
handleInputRadix16(value) ==
    /\ SignalSet(parseInt(value, 16))
    /\ lastInput' = <<[component |-> "timeline-slider", value |-> value]>>
    /\ emitted' = <<>>
    /\ UNCHANGED <<legacyDayOfYear, mapVars, gpuVars>>

\* TimelineSlider.handleInput (signal-based): e.target.value is `value`
handleInput(value) ==
    /\ SignalSet(parseInt(value, 10))
    /\ lastInput' = <<[component |-> "timeline-slider", value |-> value]>>
    /\ emitted' = <<>>
    /\ UNCHANGED <<legacyDayOfYear, mapVars, gpuVars>>

\* the property-based handleInput dispatching before it assigns the property
handleInputLegacyStale(value) ==
    /\ legacyDayOfYear' = parseInt(value, 10)
    /\ emitted' = <<[type |-> "date-change",
                     detail |-> [dayOfYear |-> legacyDayOfYear]]>>
    /\ lastInput' = <<[component |-> "timeline-slider-legacy", value |-> value]>>
    /\ UNCHANGED <<sliderVars, mapVars, gpuVars>>

\* TimelineSlider.handleInput (property-based revision): sets its own property
\* and dispatches 'date-change'
handleInputLegacy(value) ==
    /\ legacyDayOfYear' = parseInt(value, 10)
    /\ emitted' = <<[type |-> "date-change",
                     detail |-> [dayOfYear |-> legacyDayOfYear']]>>
    /\ lastInput' = <<[component |-> "timeline-slider-legacy", value |-> value]>>
    /\ UNCHANGED <<sliderVars, mapVars, gpuVars>>

\* <sl-range min="1" max="365"> fires sl-input with its numeric value n;
\* parseInt first converts the number to a string.  The event is a task: the
\* re-renders queued by the previous signal write (microtasks) have run by then
SlInput(n) ==
    /\ ~sliderDirty /\ ~appRootDirty
    /\ handleInput(NumberToString(n))

\* TimelineSlider.render, re-run by SignalWatcher after the signal changed
SliderRender ==
    /\ sliderDirty
    /\ sliderDirty' = FALSE
    /\ dateDisplay' = formattedDate
    /\ UNCHANGED <<dayOfYearSignal, yearSignal, appRootDirty, legacyVars, mapVars, gpuVars>>

\* AppRoot.render: reads the signal, renders <foliage-map id="map"> with no
\* property binding, so the map element's properties are left alone
AppRootRender ==
    /\ appRootDirty
    /\ appRootDirty' = FALSE
    /\ UNCHANGED <<dayOfYearSignal, yearSignal, dateDisplay, sliderDirty,
                   legacyVars, mapVars, gpuVars>>

---------------------------------------------------------------------------
(* FoliageMap *)

NoTexture == 0

\* './api/metadata'
MetadataUrl == <<".", "/", "a", "p", "i", "/", "m", "e", "t", "a", "d", "a", "t", "a">>

Names == {"Oak", "Maple", "DEFAULT"}

\* every Record<string, number> over Names with values 0..MaxRowValue
Mappings == UNION {[S -> 0..MaxRowValue] : S \in SUBSET Names}

EmptyMapping == [n \in {} |-> 0]

\* bodies the metadata endpoint may answer: with or without atlas_mapping
Metas == {[atlas_mapping |-> m] : m \in Mappings} \cup {[version |-> 1]}

\* species of the tree data; "Ginkgo" is never a key of the mapping
TreeSpecies == {"Oak", "Ginkgo"}

\* days an embedding page assigns to the dayOfYear property
DayChoices == {RangeMin, DefaultDay, RangeMax}

\* the accessor written with ||: an entry of 0 falls through to DEFAULT
speciesIndexAccessorTruthy(d) ==
    IF d.species \in DOMAIN atlasMapping /\ atlasMapping[d.species] # 0
    THEN atlasMapping[d.species]
    ELSE IF "DEFAULT" \in DOMAIN atlasMapping /\ atlasMapping["DEFAULT"] # 0
         THEN atlasMapping["DEFAULT"]
         ELSE 0

\* FoliageMap.speciesIndexAccessor
speciesIndexAccessor(d) ==
    IF d.species \in DOMAIN atlasMapping
    THEN atlasMapping[d.species]
    ELSE IF "DEFAULT" \in DOMAIN atlasMapping /\ atlasMapping["DEFAULT"] # 0
         THEN atlasMapping["DEFAULT"]
         ELSE 0

\* Object.keys(this.atlasMapping).length || 1
AtlasHeight(mapping) ==
    IF Cardinality(DOMAIN mapping) = 0 THEN 1 ELSE Cardinality(DOMAIN mapping)

\* updateLayers without its early return
updateLayersUnguarded(d, tex, mapping, day, debug, old) ==
    << [id |-> "phenology-layer", uAtlas |-> tex,
        uAtlasHeight |-> AtlasHeight(mapping), uTime |-> day],
       [id |-> "debug-locations", visible |-> debug] >>

\* FoliageMap.updateLayers: the layer list of the overlay after the call, given
\* the fields as they are when it runs
updateLayers(d, tex, mapping, day, debug, old) ==
    IF ~d \/ tex = NoTexture
    THEN old
    ELSE << [id |-> "phenology-layer", uAtlas |-> tex,
             uAtlasHeight |-> AtlasHeight(mapping), uTime |-> day],
            [id |-> "debug-locations", visible |-> debug] >>

\* updated that never refreshes the layers
updatedNoRefresh(cp) == overlayLayers' = overlayLayers

\* FoliageMap.updated(changedProps)
updated(cp) ==
    overlayLayers' =
        IF "dayOfYear" \in cp
        THEN updateLayers(deck, atlasTexture, atlasMapping, dayOfYear, showDebug,
                          overlayLayers)
        ELSE overlayLayers

\* FoliageMap.loadMetadata up to its first await: the request is issued
loadMetadata ==
    /\ fetchLog' = Append(fetchLog, MetadataUrl)
    /\ request' = "pending"

\* the first update with initMap called without awaiting loadMetadata
firstUpdatedNoAwait ==
    /\ phase = "constructed"
    /\ phase' = "fetching"
    /\ loadMetadata
    /\ map' = TRUE
    /\ deck' = TRUE
    /\ overlayLayers' = <<>>
    /\ changedProps' = {}
    /\ UNCHANGED <<meta, atlasMapping, imageVars, showDebug, dayOfYear, attr>>
    /\ UNCHANGED <<sliderVars, legacyVars, gpuVars>>

\* Lit's first update: render, firstUpdated (runs to the await inside
\* loadMetadata), then updated
firstUpdated ==
    /\ phase = "constructed"
    /\ phase' = "fetching"
    /\ loadMetadata
    /\ updated(changedProps)
    /\ changedProps' = {}
    /\ UNCHANGED <<meta, atlasMapping, map, deck, imageVars, showDebug, dayOfYear, attr>>
    /\ UNCHANGED <<sliderVars, legacyVars, gpuVars>>

\* a later Lit update that loads the metadata again
PerformUpdateRefetch ==
    /\ phase # "constructed"
    /\ changedProps # {}
    /\ updated(changedProps)
    /\ changedProps' = {}
    /\ loadMetadata
    /\ UNCHANGED <<phase, meta, atlasMapping, map, deck>>
    /\ UNCHANGED <<imageVars, showDebug, dayOfYear, attr>>
    /\ UNCHANGED <<sliderVars, legacyVars, gpuVars>>

\* a later Lit update
PerformUpdate ==
    /\ phase # "constructed"
    /\ changedProps # {}
    /\ updated(changedProps)
    /\ changedProps' = {}
    /\ UNCHANGED <<loadVars, imageVars, showDebug, dayOfYear, attr>>
    /\ UNCHANGED <<sliderVars, legacyVars, gpuVars>>

\* loadMetadata resumes with the parsed body: meta.atlas_mapping || {}
MetadataResolved(body) ==
    /\ phase = "fetching"
    /\ phase' = "settled"
    /\ request' = "fulfilled"
    /\ meta' = <<body>>
    /\ atlasMapping' = IF "atlas_mapping" \in DOMAIN body
                       THEN body.atlas_mapping ELSE EmptyMapping
    /\ UNCHANGED <<fetchLog, map, deck, imageVars, propVars, overlayLayers, attr>>
    /\ UNCHANGED <<sliderVars, legacyVars, gpuVars>>

\* fetch or json() rejected and the error leaves loadMetadata: firstUpdated
\* rejects at its await and never reaches initMap
MetadataRejectedThrows ==
    /\ phase = "fetching"
    /\ phase' = "failed"
    /\ request' = "rejected"
    /\ UNCHANGED <<meta, atlasMapping, fetchLog, map, deck, imageVars, propVars,
                   overlayLayers, attr>>
    /\ UNCHANGED <<sliderVars, legacyVars, gpuVars>>

\* fetch or json() rejected: the catch block logs and returns
MetadataRejected ==
    /\ phase = "fetching"
    /\ phase' = "settled"
    /\ request' = "rejected"
    /\ UNCHANGED <<meta, atlasMapping, fetchLog, map, deck, imageVars, propVars,
                   overlayLayers, attr>>
    /\ UNCHANGED <<sliderVars, legacyVars, gpuVars>>

\* firstUpdated resumes after the await: FoliageMap.initMap
initMap ==
    /\ phase = "settled"
    /\ phase' = "ready"
    /\ map' = TRUE
    /\ deck' = TRUE
    /\ overlayLayers' = updateLayers(TRUE, atlasTexture, atlasMapping, dayOfYear,
                                     showDebug, <<>>)
    /\ UNCHANGED <<request, meta, atlasMapping, fetchLog, imageVars, propVars, attr>>
    /\ UNCHANGED <<sliderVars, legacyVars, gpuVars>>

\* onDeviceInitialized running again for a device that is already set up
onDeviceInitializedAgain ==
    /\ deck
    /\ imageState' = "loading"
    /\ imageRequests' = imageRequests + 1
    /\ UNCHANGED <<atlasTexture, textureCount, loadVars, propVars, overlayLayers, attr>>
    /\ UNCHANGED <<sliderVars, legacyVars, gpuVars>>

\* the overlay's onDeviceInitialized callback: the atlas image is requested
onDeviceInitialized ==
    /\ deck
    /\ imageState = "none"
    /\ imageState' = "loading"
    /\ imageRequests' = imageRequests + 1
    /\ UNCHANGED <<atlasTexture, textureCount, loadVars, propVars, overlayLayers, attr>>
    /\ UNCHANGED <<sliderVars, legacyVars, gpuVars>>

\* image.onload: the texture is created, then updateLayers
onload ==
    /\ imageState = "loading"
    /\ imageState' = "loaded"
    /\ textureCount' = textureCount + 1
    /\ atlasTexture' = textureCount + 1
    /\ overlayLayers' = updateLayers(deck, atlasTexture', atlasMapping, dayOfYear,
                                     showDebug, overlayLayers)
    /\ UNCHANGED <<imageRequests, loadVars, propVars, attr>>
    /\ UNCHANGED <<sliderVars, legacyVars, gpuVars>>

\* the image fails to load: no handler is installed
ImageError ==
    /\ imageState = "loading"
    /\ imageState' = "error"
    /\ UNCHANGED <<imageRequests, atlasTexture, textureCount, loadVars, propVars,
                   overlayLayers, attr>>
    /\ UNCHANGED <<sliderVars, legacyVars, gpuVars>>

\* toggleDebug without the updateLayers call
toggleDebugNoRefresh ==
    /\ phase # "constructed"
    /\ showDebug' = ~showDebug
    /\ changedProps' = changedProps \cup {"showDebug"}
    /\ UNCHANGED <<dayOfYear, loadVars, imageVars, overlayLayers, attr>>
    /\ UNCHANGED <<sliderVars, legacyVars, gpuVars>>

\* FoliageMap.toggleDebug, from the button rendered by the first update
toggleDebug ==
    /\ phase # "constructed"
    /\ showDebug' = ~showDebug
    /\ changedProps' = changedProps \cup {"showDebug"}
    /\ overlayLayers' = updateLayers(deck, atlasTexture, atlasMapping, dayOfYear,
                                     showDebug', overlayLayers)
    /\ UNCHANGED <<dayOfYear, loadVars, imageVars, attr>>
    /\ UNCHANGED <<sliderVars, legacyVars, gpuVars>>

\* the reactive dayOfYear property is assigned a different value
SetDayOfYear(d) ==
    /\ d # dayOfYear
    /\ dayOfYear' = d
    /\ changedProps' = changedProps \cup {"dayOfYear"}
    /\ UNCHANGED <<showDebug, loadVars, imageVars, overlayLayers, attr>>
    /\ UNCHANGED <<sliderVars, legacyVars, gpuVars>>

\* deck.gl fills the instanceSpecies attribute of a submitted phenology layer
\* by calling getSpeciesIndex on a tree datum
ComputeAttribute(d) ==
    /\ overlayLayers # <<>>
    /\ attr' = <<[species |-> d.species, index |-> speciesIndexAccessor(d)]>>
    /\ UNCHANGED <<loadVars, imageVars, propVars, overlayLayers>>
    /\ UNCHANGED <<sliderVars, legacyVars, gpuVars>>

---------------------------------------------------------------------------
(* The phenology shaders: PhenologyExtension's injected lookup and the
   fragment shader of PhenologyLayer *)

\* GLSL mod(x, y) = x - y * floor(x / y)
GlslMod(x, y) == x - y * (x \div y)

\* GLSL clamp(x, 0.0, 1.0) of the rational x
Clamp01(x) ==
    IF x[1] < 0 THEN <<0, x[2]>>
    ELSE IF x[1] > x[2] THEN <<x[2], x[2]>>
    ELSE x

\* the row coordinate without the half-texel offset
RowCoordinateNoHalf(species, atlasHeight) == <<species, atlasHeight>>

\* float v = (species + 0.5) / atlasHeight
RowCoordinate(species, atlasHeight) == <<2 * species + 1, 2 * atlasHeight>>

\* the adjusted time without the wrap
AdjustedTimeUnwrapped(time, adjustment) == time - adjustment

\* adjustedTime = mod(time - adjustment + 365.0, 365.0)
AdjustedTime(time, adjustment) ==
    GlslMod((time - adjustment) + DaysPerYear, DaysPerYear)

\* 'fs:DECKGL_FILTER_COLOR' of PhenologyExtension.getShaders
ExtensionLookup(in) ==
    [shader |-> "PhenologyExtension",
     adjustedTime |-> AdjustedTime(in.time, in.adjustment),
     u |-> Clamp01(<<AdjustedTime(in.time, in.adjustment), DaysPerYear>>),
     v |-> RowCoordinate(in.species, in.atlasHeight)]

\* main() of PhenologyLayer's fragmentShader: no per-instance adjustment
LayerLookup(in) ==
    [shader |-> "PhenologyLayer",
     adjustedTime |-> in.time,
     u |-> Clamp01(<<in.time, DaysPerYear>>),
     v |-> RowCoordinate(in.species, in.atlasHeight)]

\* nearest filtering, clamp-to-edge: the texel row of coordinate v in an atlas
\* of `rows` rows
SampledRow(v, rows) ==
    LET r == (v[1] * rows) \div v[2]
    IN  IF r < 0 THEN 0 ELSE IF r > rows - 1 THEN rows - 1 ELSE r

\* nearest filtering, clamp-to-edge: the texel column of coordinate u in an
\* atlas of `columns` columns
SampledColumn(u, columns) ==
    LET c == (u[1] * columns) \div u[2]
    IN  IF c < 0 THEN 0 ELSE IF c > columns - 1 THEN columns - 1 ELSE c

RunExtensionShader ==
    /\ frag' = [frag EXCEPT !.out = <<ExtensionLookup(frag.in)>>]
    /\ UNCHANGED <<sliderVars, legacyVars, mapVars, models, props>>

RunLayerShader ==
    /\ frag' = [frag EXCEPT !.out = <<LayerLookup(frag.in)>>]
    /\ UNCHANGED <<sliderVars, legacyVars, mapVars, models, props>>

---------------------------------------------------------------------------
(* PhenologyExtension.updateState *)

\* JavaScript values of the optional numeric props
Undefined == [tag |-> "undefined", value |-> 0]
Null      == [tag |-> "null", value |-> 0]
Number(n) == [tag |-> "number", value |-> n]

\* a ?? b
NullishCoalescing(a, b) == IF a.tag \in {"undefined", "null"} THEN b ELSE a.value

\* props a layer may be rendered with; phenologyAtlas is a texture or missing
PropsChoices ==
    [phenologyTime : {Undefined, Null, Number(0)} \cup {Number(d) : d \in DayChoices},
     phenologyAtlasHeight : {Undefined, Null, Number(1), Number(3)},
     phenologyAtlas : {NoTexture, 1}]

\* a luma.gl model before any setProps / setBindings
NewModel == [uniforms |-> <<>>, bindings |-> NoTexture]

\* the body of the for loop for one model
UpdateModel(model, p) ==
    [uniforms |-> <<[time |-> NullishCoalescing(p.phenologyTime, 0),
                     atlasHeight |-> NullishCoalescing(p.phenologyAtlasHeight, 1)]>>,
     bindings |-> IF p.phenologyAtlas # NoTexture THEN p.phenologyAtlas
                  ELSE model.bindings]

\* deck.gl builds the layer's models
CreateModels(n) ==
    /\ models = <<>>
    /\ models' = [i \in 1..n |-> NewModel]
    /\ UNCHANGED <<sliderVars, legacyVars, mapVars, frag, props>>

\* updateState that stops after the first model
updateStateFirstModel(p) ==
    /\ props' = <<p>>
    /\ models' = [i \in DOMAIN models |->
                     IF i = 1 THEN UpdateModel(models[i], p) ELSE models[i]]
    /\ UNCHANGED <<sliderVars, legacyVars, mapVars, frag>>

\* PhenologyExtension.updateState({props})
updateState(p) ==
    /\ props' = <<p>>
    /\ models' = [i \in DOMAIN models |-> UpdateModel(models[i], p)]
    /\ UNCHANGED <<sliderVars, legacyVars, mapVars, frag>>

---------------------------------------------------------------------------
(* Initial states and specifications *)

IdleFragment ==
    [in |-> [time |-> DefaultDay, adjustment |-> 0, species |-> 0, atlasHeight |-> 1],
     out |-> <<>>]

InitComponents ==
    /\ dayOfYearSignal = SignalDefaultDay
    /\ yearSignal = DefaultYear
    /\ dateDisplay = formattedDate
    /\ sliderDirty = FALSE
    /\ appRootDirty = FALSE
    /\ legacyDayOfYear = LegacyDefaultDay
    /\ lastInput = <<>>
    /\ emitted = <<>>
    /\ phase = "constructed"
    /\ request = "none"
    /\ meta = <<>>
    /\ atlasMapping = EmptyMapping
    /\ fetchLog = <<>>
    /\ map = FALSE
    /\ deck = FALSE
    /\ imageState = "none"
    /\ imageRequests = 0
    /\ atlasTexture = NoTexture
    /\ textureCount = 0
    /\ showDebug = FALSE
    /\ dayOfYear = DefaultDay
    /\ changedProps = {"showDebug", "dayOfYear"}
    /\ overlayLayers = <<>>
    /\ attr = <<>>
    /\ models = <<>>
    /\ props = <<>>

Init ==
    /\ InitComponents
    /\ frag = IdleFragment

\* the steps of the FoliageMap element that need no outside caller
MapStep ==
    \/ firstUpdated
    \/ PerformUpdate
    \/ \E body \in Metas : MetadataResolved(body)
    \/ MetadataRejected
    \/ initMap
    \/ onDeviceInitialized
    \/ onload
    \/ ImageError
    \/ toggleDebug
    \/ \E s \in TreeSpecies : ComputeAttribute([species |-> s])

\* The page: app-root with the signal-based slider and the map.  The user
\* stops the slider at its ends and at the default position.
Next ==
    \/ \E n \in DayChoices : SlInput(n)
    \/ SliderRender
    \/ AppRootRender
    \/ MapStep

Spec == Init /\ [][Next]_vars

\* The slider, the signal and app-root alone, over every slider position.
NextSlider ==
    \/ \E n \in RangeMin..RangeMax : SlInput(n)
    \/ SliderRender
    \/ AppRootRender

SpecSlider == Init /\ [][NextSlider]_vars

\* The FoliageMap element on its own, its dayOfYear property driven from outside.
NextMap ==
    \/ MapStep
    \/ \E d \in DayChoices : SetDayOfYear(d)

SpecMap == Init /\ [][NextMap]_vars

\* The same, with the continuation of firstUpdated after its await always run:
\* a settled promise's reaction is a queued microtask.
SpecMapFair == SpecMap /\ WF_vars(initMap)

\* Direct handler calls on both slider revisions with arbitrary numeric strings.
InputValues ==
    {NumberToString(n) : n \in (0 - MaxInput)..MaxInput}
        \cup {<<"5", "0">>, <<" ", "7">>, <<"+", "5">>, <<"0", "9">>,
              <<"1", "2", "p", "x">>, <<"3", ".", "9">>}

NextHandler ==
    \/ \E value \in InputValues : handleInput(value)
    \/ \E value \in InputValues : handleInputLegacy(value)
    \/ SliderRender
    \/ AppRootRender

SpecHandler == Init /\ [][NextHandler]_vars

\* The time axis of the atlas lookup: every day-of-year and day offset.
InitTimeAxis ==
    /\ InitComponents
    /\ \E t \in RangeMin..RangeMax, a \in (0 - MaxAdjust)..MaxAdjust :
           frag = [IdleFragment EXCEPT !.in.time = t, !.in.adjustment = a]

NextShader == RunExtensionShader \/ RunLayerShader

SpecTimeAxis == InitTimeAxis /\ [][NextShader]_vars

\* The row axis of the atlas lookup: every height and every row of it.
InitRowAxis ==
    /\ InitComponents
    /\ \E h \in 1..MaxAtlasHeight, i \in 0..(MaxAtlasHeight - 1) :
           /\ i < h
           /\ frag = [IdleFragment EXCEPT !.in.atlasHeight = h, !.in.species = i]

SpecRowAxis == InitRowAxis /\ [][NextShader]_vars

\* A layer with PhenologyExtension: deck.gl creates its models and calls
\* updateState with the props of each render.
NextExtension ==
    \/ \E n \in 1..MaxModels : CreateModels(n)
    \/ \E p \in PropsChoices : updateState(p)

SpecExtension == Init /\ [][NextExtension]_vars

---------------------------------------------------------------------------
(* Properties *)

\* s contains sub as a contiguous substring
Contains(s, sub) ==
    \E i \in 0..(Len(s) - Len(sub)) : SubSeq(s, i + 1, i + Len(sub)) = sub

Quiescent == changedProps = {} /\ ~sliderDirty /\ ~appRootDirty

\* C1: every species index handed to a submitted phenology layer lies in
\* 0..atlasHeight-1, atlasHeight being the uAtlasHeight of that same layer.
C1_IndexWithinAtlasRows ==
    (attr # <<>> /\ overlayLayers # <<>>) =>
        /\ 0 <= attr[1].index
        /\ attr[1].index < overlayLayers[1].uAtlasHeight

\* C2: the shared day-of-year value is always an integer in 1..365.
C2_DayOfYearInRange == dayOfYearSignal \in 1..365

C2_Witness ==
    /\ lastInput = <<[component |-> "timeline-slider", value |-> <<"3", "6", "5">>]>>
    /\ dayOfYearSignal = 365

\* C3: once the texture is loaded and nothing is pending, the phenology layer
\* last submitted to the overlay carries the day-of-year the slider has set.
C3_MapFollowsSlider ==
    (lastInput # <<>> /\ atlasTexture # NoTexture /\ Quiescent) =>
        /\ overlayLayers # <<>>
        /\ overlayLayers[1].uTime = dayOfYearSignal

\* C4: for 0 <= i < H the row coordinate v = (i + 0.5) / H is strictly inside
\* row i, i/H < v < (i+1)/H, and nearest sampling of an H-row atlas reads row i.
C4_RowCenterInsideRow ==
    \A o \in {frag.out[k] : k \in 1..Len(frag.out)} :
        (0 <= frag.in.species /\ frag.in.species < frag.in.atlasHeight) =>
            /\ frag.in.species * o.v[2] < o.v[1] * frag.in.atlasHeight
            /\ o.v[1] * frag.in.atlasHeight < (frag.in.species + 1) * o.v[2]
            /\ SampledRow(o.v, frag.in.atlasHeight) = frag.in.species

C4_Witness ==
    /\ frag.out # <<>>
    /\ frag.in.atlasHeight >= 3
    /\ frag.in.species = frag.in.atlasHeight - 1

\* C5: in the extension's lookup the wrapped time is in 0..364 and congruent
\* to time - offset modulo 365, for offsets of either sign, so u is in [0, 1).
C5_WrappedTimeInYear ==
    (frag.out # <<>> /\ frag.out[1].shader = "PhenologyExtension"
        /\ frag.in.time \in 1..365) =>
        /\ 0 <= frag.out[1].adjustedTime
        /\ frag.out[1].adjustedTime < 365
        /\ (frag.out[1].adjustedTime - (frag.in.time - frag.in.adjustment)) % 365 = 0
        /\ 0 <= frag.out[1].u[1]
        /\ frag.out[1].u[1] < frag.out[1].u[2]

C5_Witness ==
    /\ frag.out # <<>>
    /\ frag.out[1].shader = "PhenologyExtension"
    /\ (frag.in.time - frag.in.adjustment) + 365 < 0

\* C6: the metadata endpoint is requested exactly once, by the first update,
\* with a URL containing /api/metadata; no later event requests it again.
C6_MetadataFetchedOnce ==
    /\ Len(fetchLog) = (IF phase = "constructed" THEN 0 ELSE 1)
    /\ \A i \in 1..Len(fetchLog) :
           Contains(fetchLog[i],
                    <<"/", "a", "p", "i", "/", "m", "e", "t", "a", "d", "a", "t", "a">>)

C6_Witness ==
    /\ Len(fetchLog) = 1
    /\ atlasTexture # NoTexture
    /\ showDebug
    /\ dayOfYear # DefaultDay
    /\ changedProps = {}

\* C7: the atlas image is requested at most once and a texture created at most
\* once; atlasTexture is null until onload has run, only onload assigns it, and
\* once non-null it never changes.
C7_TextureAssignedOnce ==
    /\ [](/\ imageRequests <= 1
          /\ textureCount <= 1
          /\ (imageState # "loaded" => atlasTexture = NoTexture))
    /\ [][/\ (atlasTexture # NoTexture => atlasTexture' = atlasTexture)
          /\ (atlasTexture' # atlasTexture =>
                 imageState = "loading" /\ imageState' = "loaded")]_vars

C7_Witness ==
    /\ atlasTexture # NoTexture
    /\ showDebug
    /\ dayOfYear # DefaultDay
    /\ changedProps = {}
    /\ attr # <<>>

\* C8: whatever the order of onload, dayOfYear updates and toggleDebug calls,
\* once the texture is loaded and no update is pending the layers last submitted
\* carry uTime = dayOfYear, visible = showDebug and uAtlas = the loaded texture.
C8_LayersMatchFields ==
    (atlasTexture # NoTexture /\ changedProps = {}) =>
        /\ Len(overlayLayers) = 2
        /\ overlayLayers[1].uTime = dayOfYear
        /\ overlayLayers[1].uAtlas = atlasTexture
        /\ overlayLayers[2].visible = showDebug

C8_Witness ==
    /\ atlasTexture # NoTexture
    /\ changedProps = {}
    /\ dayOfYear = RangeMax
    /\ showDebug
    /\ overlayLayers # <<>>
    /\ overlayLayers[1].uTime = RangeMax

\* C9: handleInput with the decimal string of an integer n leaves the shared
\* signal at n, whatever it was before; '50' gives 50.
C9_InputSetsSignal ==
    /\ \A n \in (0 - MaxInput)..MaxInput :
           lastInput = <<[component |-> "timeline-slider",
                          value |-> NumberToString(n)]>>
               => dayOfYearSignal = n
    /\ lastInput = <<[component |-> "timeline-slider", value |-> <<"5", "0">>]>>
           => dayOfYearSignal = 50

C9_Witness ==
    /\ lastInput = <<[component |-> "timeline-slider", value |-> <<"5", "0">>]>>
    /\ dayOfYearSignal = 50
    /\ legacyDayOfYear # LegacyDefaultDay

DaysBeforeMonth2024 == <<0, 31, 60, 91, 121, 152, 182, 213, 244, 274, 305, 335, 366>>

UpdateComplete == phase # "constructed" /\ changedProps = {}

\* C12: whenever updateComplete has resolved and the metadata request has
\* resolved successfully, the map and the deck overlay both exist.
C12_InitializedAtUpdateComplete ==
    (UpdateComplete /\ request = "fulfilled") => (map /\ deck)

\* C13: the map and the overlay exist, and layers are submitted, only after
\* loadMetadata has settled and firstUpdated has resumed; from the moment the
\* overlay exists (so from before the first layer is created) atlasMapping is
\* never assigned again.
C13_MapInitAfterMetadata ==
    /\ []((map \/ deck \/ overlayLayers # <<>>) =>
             (phase = "ready" /\ request \in {"fulfilled", "rejected"}))
    /\ [][(deck \/ overlayLayers # <<>>) => atlasMapping' = atlasMapping]_vars

C13_Witness ==
    /\ overlayLayers # <<>>
    /\ request = "fulfilled"
    /\ atlasMapping # EmptyMapping

\* C14: a rejected metadata request leaves atlasMapping at the empty mapping
\* it had, firstUpdated still resumes and initMap creates the map and the
\* overlay; a response body without atlas_mapping makes the mapping empty.
C14_MetadataFailureTolerated ==
    /\ [](request = "rejected" =>
             (atlasMapping = EmptyMapping /\ phase \in {"settled", "ready"}))
    /\ [][request' = "rejected" => atlasMapping' = atlasMapping]_vars
    /\ (request = "rejected") ~> (map /\ deck)
    /\ []((meta # <<>> /\ "atlas_mapping" \notin DOMAIN meta[1]) =>
             atlasMapping = EmptyMapping)

C14_Witness ==
    /\ request = "rejected"
    /\ map /\ deck
    /\ atlasMapping = EmptyMapping
    /\ overlayLayers # <<>>

\* C15: layers are in the overlay only when the overlay exists and the atlas
\* texture has been created; a step that ends without overlay or without
\* texture leaves the layer list as it was, and so does updateLayers called on
\* the current fields with either of them missing.
C15_NoLayersBeforeTexture ==
    /\ [](overlayLayers # <<>> => (deck /\ atlasTexture # NoTexture))
    /\ [](/\ updateLayers(FALSE, atlasTexture, atlasMapping, dayOfYear, showDebug,
                          overlayLayers) = overlayLayers
          /\ updateLayers(deck, NoTexture, atlasMapping, dayOfYear, showDebug,
                          overlayLayers) = overlayLayers)
    /\ [][(~deck' \/ atlasTexture' = NoTexture) => overlayLayers' = overlayLayers]_vars

C15_Witness ==
    /\ deck
    /\ atlasTexture = NoTexture
    /\ imageState = "loading"
    /\ showDebug
    /\ changedProps = {}
    /\ overlayLayers = <<>>

\* C16: when an update cycle has completed and layers are in the overlay, the
\* phenology layer's uTime is the element's dayOfYear; the first layers ever
\* submitted already carry the dayOfYear of that moment, whatever was assigned
\* while the texture was loading.
C16_SubmittedTimeIsDayOfYear ==
    /\ []((UpdateComplete /\ overlayLayers # <<>>) =>
             (overlayLayers[1].id = "phenology-layer"
                 /\ overlayLayers[1].uTime = dayOfYear))
    /\ [][(overlayLayers = <<>> /\ overlayLayers' # <<>>) =>
             overlayLayers'[1].uTime = dayOfYear']_vars

C16_Witness ==
    /\ changedProps = {"dayOfYear"}
    /\ ~showDebug
    /\ dayOfYear = RangeMin
    /\ overlayLayers # <<>>
    /\ overlayLayers[1].uTime = RangeMin

\* C17: the index computed for a datum of species s is the mapping's entry for
\* s whenever there is one, 0 included; without an entry it is the DEFAULT
\* entry when that exists and is not 0; in every other case it is 0.
C17_AccessorFallsBackToDefault ==
    attr # <<>> =>
        LET s == attr[1].species
            hasDefault == "DEFAULT" \in DOMAIN atlasMapping
        IN  /\ s \in DOMAIN atlasMapping => attr[1].index = atlasMapping[s]
            /\ (s \notin DOMAIN atlasMapping /\ hasDefault
                    /\ atlasMapping["DEFAULT"] # 0)
                   => attr[1].index = atlasMapping["DEFAULT"]
            /\ (s \notin DOMAIN atlasMapping /\ ~hasDefault) => attr[1].index = 0
            /\ (s \notin DOMAIN atlasMapping /\ hasDefault
                    /\ atlasMapping["DEFAULT"] = 0)
                   => attr[1].index = 0

C17_Witness ==
    /\ attr # <<>>
    /\ attr[1].species = "Oak"
    /\ "Oak" \in DOMAIN atlasMapping
    /\ atlasMapping["Oak"] = 0
    /\ "DEFAULT" \in DOMAIN atlasMapping
    /\ atlasMapping["DEFAULT"] = MaxRowValue
    /\ attr[1].index = 0

\* C18: an updateState call with props p leaves on every model of the layer
\* time = p.phenologyTime and atlasHeight = p.phenologyAtlasHeight, with 0 and
\* 1 in place of an undefined or null prop; the set of models is unchanged, and
\* with no models nothing is set.
C18_UniformsFollowProps ==
    [][\A p \in PropsChoices :
          updateState(p) =>
              /\ Len(models') = Len(models)
              /\ \A i \in DOMAIN models' :
                    /\ models'[i].uniforms # <<>>
                    /\ models'[i].uniforms[1].time =
                           (IF p.phenologyTime.tag = "number"
                            THEN p.phenologyTime.value ELSE 0)
                    /\ models'[i].uniforms[1].atlasHeight =
                           (IF p.phenologyAtlasHeight.tag = "number"
                            THEN p.phenologyAtlasHeight.value ELSE 1)]_vars

C18_Witness ==
    /\ Len(models) = MaxModels
    /\ props # <<>>
    /\ props[1].phenologyTime = Null
    /\ props[1].phenologyAtlasHeight = Undefined
    /\ \A i \in DOMAIN models :
          models[i].uniforms = <<[time |-> 0, atlasHeight |-> 1]>>

\* C19: for a fragment with day offset 0 and a day-of-year in 1..365, the
\* PhenologyExtension lookup and the PhenologyLayer lookup compute the same
\* time coordinate u.
C19_ZeroOffsetSameCoordinate ==
    (frag.out # <<>> /\ frag.in.adjustment = 0 /\ frag.in.time \in 1..365) =>
        ExtensionLookup(frag.in).u[1] * LayerLookup(frag.in).u[2]
            = LayerLookup(frag.in).u[1] * ExtensionLookup(frag.in).u[2]

\* C20: in an atlas of 365 columns, the column PhenologyLayer samples for the
\* fragment's day-of-year is sampled for no other day-of-year in 1..365.
C20_EveryDayOwnColumn ==
    (frag.out # <<>> /\ frag.out[1].shader = "PhenologyLayer"
        /\ frag.in.time \in 1..365) =>
        \A e \in 1..365 :
            e # frag.in.time =>
                SampledColumn(LayerLookup([frag.in EXCEPT !.time = e]).u, DaysPerYear)
                    # SampledColumn(frag.out[1].u, DaysPerYear)

===========================================================================
